---- MODULE Spec2Model ----
(***************************************************************************)
(* The numeric input editors of tui-components                            *)
(* (src/components/num_input.rs): SignedIntInput<T>, UnsignedIntInput<T>  *)
(* and FloatInput<T>.  The integer editors are instantiated at the 8-bit  *)
(* native types (T = i8, T = u8).  One editor is constructed and then     *)
(* driven by method calls and by events, one operation per step.          *)
(***************************************************************************)
EXTENDS Integers, Sequences, FiniteSets, TLC

VARIABLES
    kind,     \* which editor was constructed: "signed", "unsigned", "float"
    ed,       \* the editor's fields (self)
    built,    \* result of the constructor: "Ok", or the NewFloatError variant
    op,       \* history: the last operation applied, with its argument
    ret,      \* history: what the last operation returned
    pre,      \* history: the editor's fields before the last operation
    start,    \* history: the fields before the current run of identical operations
    n         \* history: length of the current run of identical operations

vars == <<kind, ed, built, op, ret, pre, start, n>>

\* Longest run of identical operations that the history counts before it
\* starts counting afresh.
MaxRun == 3

(***************************************************************************)
(* Numeric capabilities of T (num::Bounded, Saturating*, Integer)          *)
(***************************************************************************)
TMin == -128
TMax == 127
UMin == 0
UMax == 255

SignedRange == TMin..TMax
UnsignedRange == UMin..UMax

\* Ord::clamp
Clamp(v, lo, hi) == IF v < lo THEN lo ELSE IF v > hi THEN hi ELSE v

\* Two's-complement wrap of v into lo..hi (what a non-saturating operation
\* of the native type stores).
Wrap(v, lo, hi) == lo + ((v - lo) % (hi - lo + 1))

WrappingAdd(a, b, lo, hi) == Wrap(a + b, lo, hi)
WrappingSub(a, b, lo, hi) == Wrap(a - b, lo, hi)
WrappingMul(a, b, lo, hi) == Wrap(a * b, lo, hi)
SaturatingAdd(a, b, lo, hi) == Clamp(a + b, lo, hi)
SaturatingSub(a, b, lo, hi) == Clamp(a - b, lo, hi)
SaturatingMul(a, b, lo, hi) == Clamp(a * b, lo, hi)

\* The native `/`: integer division truncating toward zero.
FlooringDiv(a, b) == a \div b
RustDiv(a, b) == IF a >= 0 THEN a \div b ELSE 0 - ((0 - a) \div b)

(***************************************************************************)
(* Characters                                                              *)
(***************************************************************************)
DigitChars == <<"0", "1", "2", "3", "4", "5", "6", "7", "8", "9">>
AsciiDigits == {DigitChars[i] : i \in 1..Len(DigitChars)}

\* char::is_ascii_digit
IsAsciiDigit(c) == c \in AsciiDigits

\* char::to_digit(10), for a character it accepts
ToDigit(c) == (CHOOSE i \in 1..Len(DigitChars) : DigitChars[i] = c) - 1

\* Display for an unsigned magnitude, as a string
RECURSIVE FormatNat(_)
FormatNat(v) ==
    IF v < 10 THEN DigitChars[v + 1]
    ELSE FormatNat(v \div 10) \o DigitChars[(v % 10) + 1]

\* format!("{}", v) for a native integer
Format(v) == IF v < 0 THEN "-" \o FormatNat(0 - v) ELSE FormatNat(v)

\* Characters delivered to the integer editors
IntChars == AsciiDigits \cup {"-", "x"}

\* crossterm events: a key with its code, or a mouse event
KeyChar(c) == [type |-> "Key", code |-> "Char", c |-> c]
Key(code) == [type |-> "Key", code |-> code, c |-> ""]
Mouse == [type |-> "Mouse", code |-> "", c |-> ""]
OtherKeys == {"Backspace", "Enter", "Esc", "Up", "Down", "Tab", "F1"}
IntEvents == {KeyChar(c) : c \in IntChars} \cup {Key(k) : k \in OtherKeys} \cup {Mouse}

\* Arguments handed to set, add, sub and multiply
SignedArgs == {TMin, -3, 0, 1, 10, TMax}
UnsignedArgs == {0, 1, 10, UMax}

(***************************************************************************)
(* SignedIntInput<T>                                                       *)
(***************************************************************************)
SignedNew(initial_value) ==
    [current |-> initial_value, negative |-> initial_value < 0]

SignedSetKeepsSign(self, value) ==
    [current |-> Clamp(value, TMin, TMax), negative |-> self.negative]
SignedSetAlwaysSign(self, value) ==
    [current |-> Clamp(value, TMin, TMax), negative |-> value < 0]
SignedSet(self, value) ==
    [current |-> Clamp(value, TMin, TMax),
     negative |-> IF value # 0 THEN value < 0 ELSE self.negative]

SignedAdd(self, value) ==
    SignedSet(self, SaturatingAdd(self.current, value, TMin, TMax))

SignedSub(self, value) ==
    SignedSet(self, SaturatingSub(self.current, value, TMin, TMax))

SignedMultiply(self, value) ==
    SignedSet(self, SaturatingMul(self.current, value, TMin, TMax))

SignedInvertSetsNegative(self) ==
    IF self.current = 0
    THEN [self EXCEPT !.negative = TRUE]
    ELSE SignedSet(self, SaturatingSub(0, self.current, TMin, TMax))
SignedInvert(self) ==
    IF self.current = 0
    THEN [self EXCEPT !.negative = ~self.negative]
    ELSE SignedSet(self, SaturatingSub(0, self.current, TMin, TMax))

SignedRemoveDigit(self) == SignedSet(self, RustDiv(self.current, 10))

SignedValue(self) == self.current

\* append_digit: the editor afterwards, and the bool returned
SignedAppendDigitAlwaysAdds(self, digit) ==
    IF IsAsciiDigit(digit)
    THEN [self |-> SignedAdd(SignedMultiply(self, 10), ToDigit(digit)), result |-> TRUE]
    ELSE [self |-> self, result |-> FALSE]
SignedAppendDigit(self, digit) ==
    IF IsAsciiDigit(digit)
    THEN [self |-> IF self.negative
                   THEN SignedSub(SignedMultiply(self, 10), ToDigit(digit))
                   ELSE SignedAdd(SignedMultiply(self, 10), ToDigit(digit)),
          result |-> TRUE]
    ELSE [self |-> self, result |-> FALSE]

\* Component::handle_event: the editor afterwards, and the response
SignedHandleEvent(self, event) ==
    IF event.type = "Key"
    THEN CASE event.code = "Char" ->
                LET appended == SignedAppendDigit(self, event.c)
                IN  [self |-> IF ~appended.result /\ event.c = "-"
                              THEN SignedInvert(appended.self)
                              ELSE appended.self,
                     response |-> "None"]
           [] event.code = "Backspace" ->
                [self |-> SignedRemoveDigit(self), response |-> "None"]
           [] event.code = "Up" -> [self |-> SignedAdd(self, 1), response |-> "None"]
           [] event.code = "Down" -> [self |-> SignedSub(self, 1), response |-> "None"]
           [] event.code = "Enter" -> [self |-> self, response |-> "Submit"]
           [] event.code = "Esc" -> [self |-> self, response |-> "Cancel"]
           [] OTHER -> [self |-> self, response |-> "None"]
    ELSE [self |-> self, response |-> "None"]

\* A styled fragment
Span(text, style) == [text |-> text, style |-> style]

\* Drops the leading sign character of a formatted number (&s[1..])
FormatNoSign(v) == IF v < 0 THEN FormatNat(0 - v) ELSE FormatNat(v)

\* Spannable::get_spans
SignedGetSpansKeepsSign(self) ==
    <<Span(IF self.negative THEN "- " ELSE "+ ", "Green"), Span(Format(self.current), "Raw")>>
    \o (IF self.current = TMax THEN <<Span(" (max value)", "Gray")>>
        ELSE IF self.current = TMin THEN <<Span(" (min value)", "Gray")>>
        ELSE <<>>)
SignedGetSpans(self) ==
    <<Span(IF self.negative THEN "- " ELSE "+ ", "Green"),
      Span(IF self.current < 0 THEN FormatNoSign(self.current) ELSE Format(self.current),
           "Raw")>>
    \o (IF self.current = TMax THEN <<Span(" (max value)", "Gray")>>
        ELSE IF self.current = TMin THEN <<Span(" (min value)", "Gray")>>
        ELSE <<>>)

(***************************************************************************)
(* UnsignedIntInput<T>                                                     *)
(***************************************************************************)
UnsignedNew(initial_value) == [current |-> initial_value]

UnsignedSet(self, value) == [current |-> Clamp(value, UMin, UMax)]

UnsignedAdd(self, value) ==
    UnsignedSet(self, SaturatingAdd(self.current, value, UMin, UMax))

UnsignedSub(self, value) ==
    UnsignedSet(self, SaturatingSub(self.current, value, UMin, UMax))

UnsignedMultiply(self, value) ==
    UnsignedSet(self, SaturatingMul(self.current, value, UMin, UMax))

UnsignedRemoveDigit(self) == UnsignedSet(self, RustDiv(self.current, 10))

UnsignedValue(self) == self.current

UnsignedAppendDigitWraps(self, digit) ==
    IF IsAsciiDigit(digit)
    THEN [self |-> [current |-> Wrap(self.current * 10 + ToDigit(digit), UMin, UMax)],
          result |-> TRUE]
    ELSE [self |-> self, result |-> FALSE]
UnsignedAppendDigit(self, digit) ==
    IF IsAsciiDigit(digit)
    THEN [self |-> UnsignedAdd(UnsignedMultiply(self, 10), ToDigit(digit)),
          result |-> TRUE]
    ELSE [self |-> self, result |-> FALSE]

UnsignedHandleEventEscIgnored(self, event) ==
    IF event.type = "Key"
    THEN CASE event.code = "Char" ->
                [self |-> UnsignedAppendDigit(self, event.c).self, response |-> "None"]
           [] event.code = "Backspace" ->
                [self |-> UnsignedRemoveDigit(self), response |-> "None"]
           [] event.code = "Up" -> [self |-> UnsignedAdd(self, 1), response |-> "None"]
           [] event.code = "Down" -> [self |-> UnsignedSub(self, 1), response |-> "None"]
           [] event.code = "Enter" -> [self |-> self, response |-> "Submit"]
           [] OTHER -> [self |-> self, response |-> "None"]
    ELSE [self |-> self, response |-> "None"]
UnsignedHandleEvent(self, event) ==
    IF event.type = "Key"
    THEN CASE event.code = "Char" ->
                [self |-> UnsignedAppendDigit(self, event.c).self, response |-> "None"]
           [] event.code = "Backspace" ->
                [self |-> UnsignedRemoveDigit(self), response |-> "None"]
           [] event.code = "Up" -> [self |-> UnsignedAdd(self, 1), response |-> "None"]
           [] event.code = "Down" -> [self |-> UnsignedSub(self, 1), response |-> "None"]
           [] event.code = "Enter" -> [self |-> self, response |-> "Submit"]
           [] event.code = "Esc" -> [self |-> self, response |-> "Cancel"]
           [] OTHER -> [self |-> self, response |-> "None"]
    ELSE [self |-> self, response |-> "None"]

UnsignedGetSpans(self) ==
    <<Span("> ", "Green"), Span(Format(self.current), "Raw")>>
    \o (IF self.current = UMax THEN <<Span(" (max value)", "Gray")>>
        ELSE IF self.current = UMin THEN <<Span(" (min value)", "Gray")>>
        ELSE <<>>)

(***************************************************************************)
(* The state machine                                                       *)
(***************************************************************************)
Call(name, ch, val) == [name |-> name, code |-> "", ch |-> ch, val |-> val]
Deliver(event) ==
    [name |-> "handle_event",
     code |-> IF event.type = "Key" THEN event.code ELSE "Mouse",
     ch |-> event.c, val |-> 0]

\* One operation `o` took the editor to `self` and returned `r`.
Step(o, self, r) ==
    /\ ed' = self
    /\ ret' = r
    /\ op' = o
    /\ pre' = ed
    /\ IF o = op /\ n < MaxRun
       THEN n' = n + 1 /\ start' = start
       ELSE n' = 1 /\ start' = ed
    /\ UNCHANGED <<kind, built>>

(***************************************************************************)
(* FloatInput<T>                                                           *)
(***************************************************************************)
\* Longest whole-part and fractional digit strings that are typed.
MaxWhole == 2
MaxFrac == 1

\* Option<String>: None is <<>>, Some(s) is <<s>>
None == <<>>
Some(s) == <<s>>
IsSome(o) == Len(o) = 1
Unwrap(o) == o[1]

\* Strings are sequences of one-character strings.
Contains(s, c) == \E i \in 1..Len(s) : s[i] = c

\* str::split_once at the first occurrence of c (which s contains)
SplitOnce(s, c) ==
    LET i == CHOOSE k \in 1..Len(s) : s[k] = c /\ \A j \in 1..(k - 1) : s[j] # c
    IN  <<SubSeq(s, 1, i - 1), SubSeq(s, i + 1, Len(s))>>

\* str::trim_start_matches(c)
KeepsLeading(s, c) == s
RECURSIVE TrimStartMatches(_, _)
TrimStartMatches(s, c) ==
    IF s # <<>> /\ s[1] = c THEN TrimStartMatches(Tail(s), c) ELSE s

\* String::pop
Pop(s) == IF s = <<>> THEN s ELSE SubSeq(s, 1, Len(s) - 1)

\* The string as text
RECURSIVE Join(_)
Join(s) == IF s = <<>> THEN "" ELSE s[1] \o Join(Tail(s))

\* FloatValue and FloatNum
Infinity(negative) == [tag |-> "Infinity", negative |-> negative]
Nan == [tag |-> "Nan"]
Number(whole, integral, negative) ==
    [tag |-> "Number", whole |-> whole, integral |-> integral, negative |-> negative]

\* A source value of T: what its classification methods and its Display give.
Source(inf, nan, fin, neg, repr) ==
    [is_infinite |-> inf, is_nan |-> nan, is_finite |-> fin,
     is_sign_negative |-> neg, repr |-> repr]
Finite(repr) == Source(FALSE, FALSE, TRUE, repr # <<>> /\ repr[1] = "-", repr)

\* Native floats (0.0, -0.0, 0.5, 3.0, 12.5, -2.5, the infinities, NaN) and
\* values of a T whose classification or Display is not that of a native float.
FloatSources ==
    { Finite(<<"0">>), Finite(<<"-", "0">>), Finite(<<"0", ".", "5">>),
      Finite(<<"3">>), Finite(<<"1", "2", ".", "5">>), Finite(<<"-", "2", ".", "5">>),
      Source(TRUE, FALSE, FALSE, FALSE, <<"i", "n", "f">>),
      Source(TRUE, FALSE, FALSE, TRUE, <<"-", "i", "n", "f">>),
      Source(FALSE, TRUE, FALSE, FALSE, <<"N", "a", "N">>),
      Source(FALSE, FALSE, FALSE, FALSE, <<"1">>),
      Finite(<<>>), Finite(<<"-">>), Finite(<<".">>), Finite(<<"-", ".">>),
      Finite(<<"5", ".">>), Finite(<<".", "5">>), Finite(<<"1", "e", "5">>),
      Finite(<<"1", ".", "2", ".", "5">>), Finite(<<"1", ".", "e">>) }

AcceptsAnything(string) == TRUE
\* parse_digit_string: is the string accepted
ParseDigitString(string) == \A i \in 1..Len(string) : IsAsciiDigit(string[i])

Built(value) == [result |-> "Ok", self |-> [value |-> value]]
Failed(error) == [result |-> error, self |-> [value |-> [tag |-> "None"]]]

\* FloatInput::new: Ok with the editor, or the NewFloatError
FloatNew(initial_value) ==
    IF initial_value.is_infinite
    THEN Built(Infinity(initial_value.is_sign_negative))
    ELSE IF initial_value.is_nan
    THEN Built(Nan)
    ELSE IF initial_value.is_finite
    THEN LET repr == initial_value.repr
             has_decimal == Contains(repr, ".")
             is_negative == repr # <<>> /\ repr[1] = "-"
             repr_no_sign == IF is_negative THEN Tail(repr) ELSE repr
         IN  IF has_decimal
             THEN LET first_maybe == SplitOnce(repr_no_sign, ".")[1]
                      second_maybe == SplitOnce(repr_no_sign, ".")[2]
                  IN  IF first_maybe = <<>> /\ second_maybe = <<>>
                      THEN Failed("ParseError")
                      ELSE IF ~ParseDigitString(first_maybe)
                      THEN Failed("ParseError")
                      ELSE IF ~ParseDigitString(second_maybe)
                      THEN Failed("ParseError")
                      ELSE Built(Number(first_maybe, Some(second_maybe), is_negative))
             ELSE IF repr_no_sign = <<>>
                  THEN Failed("ParseError")
                  ELSE IF ~ParseDigitString(repr_no_sign)
                  THEN Failed("ParseError")
                  ELSE Built(Number(repr_no_sign, None, is_negative))
    ELSE Failed("ParseError")

FloatPushDigitResetsPoint(self, digit) ==
    IF self.value.tag = "Number"
    THEN LET value == self.value
         IN  IF IsAsciiDigit(digit)
             THEN IF IsSome(value.integral)
                  THEN [value |-> [value EXCEPT
                                     !.integral = Some(Append(Unwrap(value.integral), digit))]]
                  ELSE [value |-> [value EXCEPT
                                     !.whole = TrimStartMatches(Append(value.whole, digit), "0")]]
             ELSE IF digit = "."
                  THEN [value |-> [value EXCEPT !.integral = Some(<<>>)]]
                  ELSE self
    ELSE self
FloatPushDigit(self, digit) ==
    IF self.value.tag = "Number"
    THEN LET value == self.value
         IN  IF IsAsciiDigit(digit)
             THEN IF IsSome(value.integral)
                  THEN [value |-> [value EXCEPT
                                     !.integral = Some(Append(Unwrap(value.integral), digit))]]
                  ELSE [value |-> [value EXCEPT
                                     !.whole = TrimStartMatches(Append(value.whole, digit), "0")]]
             ELSE IF digit = "." /\ ~IsSome(value.integral)
                  THEN [value |-> [value EXCEPT !.integral = Some(<<>>)]]
                  ELSE self
    ELSE self

FloatRemoveDigitPopsWhole(self) ==
    IF self.value.tag = "Number"
    THEN LET value == self.value
         IN  IF IsSome(value.integral)
             THEN IF Unwrap(value.integral) = <<>>
                  THEN [value |-> [value EXCEPT !.integral = None, !.whole = Pop(value.whole)]]
                  ELSE [value |-> [value EXCEPT !.integral = Some(Pop(Unwrap(value.integral)))]]
             ELSE [value |-> [value EXCEPT !.whole = Pop(value.whole)]]
    ELSE self
FloatRemoveDigitDropsPoint(self) ==
    IF self.value.tag = "Number"
    THEN LET value == self.value
         IN  IF IsSome(value.integral)
             THEN IF Len(Unwrap(value.integral)) <= 1
                  THEN [value |-> [value EXCEPT !.integral = None]]
                  ELSE [value |-> [value EXCEPT !.integral = Some(Pop(Unwrap(value.integral)))]]
             ELSE [value |-> [value EXCEPT !.whole = Pop(value.whole)]]
    ELSE self
FloatRemoveDigit(self) ==
    IF self.value.tag = "Number"
    THEN LET value == self.value
         IN  IF IsSome(value.integral)
             THEN IF Unwrap(value.integral) = <<>>
                  THEN [value |-> [value EXCEPT !.integral = None]]
                  ELSE [value |-> [value EXCEPT !.integral = Some(Pop(Unwrap(value.integral)))]]
             ELSE [value |-> [value EXCEPT !.whole = Pop(value.whole)]]
    ELSE self

EntireNoDefault(number) ==
    IF IsSome(number.integral)
    THEN number.whole \o <<".">> \o Unwrap(number.integral)
    ELSE number.whole
\* The text value() hands to the parser: whole part ("0" when empty), then '.'
\* and the fractional digits when a decimal point was typed
Entire(number) ==
    LET whole_part == IF number.whole = <<>> THEN <<"0">> ELSE number.whole
    IN  IF IsSome(number.integral)
        THEN whole_part \o <<".">> \o Unwrap(number.integral)
        ELSE whole_part

\* The number a digit string denotes
RECURSIVE DigitsToNat(_)
DigitsToNat(s) ==
    IF s = <<>> THEN 0 ELSE 10 * DigitsToNat(Pop(s)) + ToDigit(s[Len(s)])

\* Drops the trailing zeros of mantissa / 10^scale
RECURSIVE Normalize(_, _)
Normalize(mantissa, scale) ==
    IF scale > 0 /\ mantissa % 10 = 0
    THEN Normalize(mantissa \div 10, scale - 1)
    ELSE [mantissa |-> mantissa, scale |-> scale]

\* Whether T::from_str_radix(text, 10) returns Ok for a text of digits and
\* points: at most one point and at least one digit
ParsesAsDecimal(text) ==
    /\ \A i \in 1..Len(text) : IsAsciiDigit(text[i]) \/ text[i] = "."
    /\ \A i, j \in 1..Len(text) : (text[i] = "." /\ text[j] = ".") => i = j
    /\ \E i \in 1..Len(text) : IsAsciiDigit(text[i])

\* T::from_str_radix(text, 10) of digits with an optional '.': the value
\* mantissa / 10^scale
FromStrRadix(text) ==
    LET parts == IF Contains(text, ".") THEN SplitOnce(text, ".") ELSE <<text, <<>>>>
        m == Normalize(DigitsToNat(parts[1] \o parts[2]), Len(parts[2]))
    IN  [class |-> "Finite", negative |-> FALSE, mantissa |-> m.mantissa, scale |-> m.scale]

\* FloatInput::value
FloatValueOf(self) ==
    CASE self.value.tag = "Infinity" ->
            [class |-> "Infinite", negative |-> self.value.negative]
      [] self.value.tag = "Nan" -> [class |-> "NaN"]
      [] self.value.tag = "Number" ->
            IF ~ParsesAsDecimal(Entire(self.value))
            THEN [class |-> "Panic"]
            ELSE LET raw == FromStrRadix(Entire(self.value))
                 IN  IF self.value.negative
                     THEN [raw EXCEPT !.negative = ~raw.negative] ELSE raw

FloatTabKeepsNumber(self) ==
    CASE self.value.tag = "Number" -> [value |-> Infinity(FALSE)]
      [] self.value.tag = "Infinity" -> [value |-> Nan]
      [] self.value.tag = "Nan" -> [value |-> Number(<<"0">>, None, FALSE)]
\* handle_event, KeyCode::Tab
FloatTab(self) ==
    CASE self.value.tag = "Number" -> [value |-> Infinity(FALSE)]
      [] self.value.tag = "Infinity" -> [value |-> Nan]
      [] self.value.tag = "Nan" -> [value |-> Number(<<>>, None, FALSE)]

FloatToggleSignNumberOnly(self) ==
    IF self.value.tag = "Number"
    THEN [value |-> [self.value EXCEPT !.negative = ~self.value.negative]]
    ELSE self
FloatToggleSignNonzeroOnly(self) ==
    IF self.value.tag = "Infinity" \/ (self.value.tag = "Number" /\ self.value.whole # <<>>)
    THEN [value |-> [self.value EXCEPT !.negative = ~self.value.negative]]
    ELSE self
\* handle_event, KeyCode::Char('-')
FloatToggleSign(self) ==
    IF self.value.tag \in {"Number", "Infinity"}
    THEN [value |-> [self.value EXCEPT !.negative = ~self.value.negative]]
    ELSE self

FloatHandleEvent(self, event) ==
    IF event.type = "Key"
    THEN CASE event.code = "Char" ->
                [self |-> IF IsAsciiDigit(event.c) \/ event.c = "."
                          THEN FloatPushDigit(self, event.c)
                          ELSE IF event.c = "-" THEN FloatToggleSign(self) ELSE self,
                 response |-> "None"]
           [] event.code = "Backspace" ->
                [self |-> FloatRemoveDigit(self), response |-> "None"]
           [] event.code = "Tab" -> [self |-> FloatTab(self), response |-> "None"]
           [] event.code = "Enter" -> [self |-> self, response |-> "Submit"]
           [] event.code = "Esc" -> [self |-> self, response |-> "Cancel"]
           [] OTHER -> [self |-> self, response |-> "None"]
    ELSE [self |-> self, response |-> "None"]

\* The text get_spans renders for a Number
SpanEntire(number) ==
    LET whole_part == IF number.whole = <<>> THEN <<"0">> ELSE number.whole
    IN  IF IsSome(number.integral)
        THEN whole_part \o <<".">> \o Unwrap(number.integral)
        ELSE whole_part

FloatGetSpans(self) ==
    CASE self.value.tag = "Infinity" ->
            <<Span(IF self.value.negative THEN "- " ELSE "+ ", "Green"), Span("inf", "Raw")>>
      [] self.value.tag = "Nan" -> <<Span("> ", "Green"), Span("NaN", "Raw")>>
      [] self.value.tag = "Number" ->
            <<Span(IF self.value.negative THEN "- " ELSE "+ ", "Green"),
              Span(Join(SpanEntire(self.value)), "Raw")>>

\* Characters delivered to the float editor
FloatChars == {"0", "1", "2", "5", ".", "-", "x"}
FloatEvents == {KeyChar(c) : c \in FloatChars} \cup {Key(k) : k \in OtherKeys} \cup {Mouse}

\* The typed digit strings stay within MaxWhole and MaxFrac.
Fits(self) ==
    self.value.tag = "Number" =>
        /\ Len(self.value.whole) <= MaxWhole
        /\ IsSome(self.value.integral) => Len(Unwrap(self.value.integral)) <= MaxFrac

\* The constructor call, with the value handed to it
New(initial_value) ==
    [name |-> "new", code |-> "", ch |-> "", val |-> 0, source |-> initial_value]

InitSigned ==
    /\ kind = "signed"
    /\ \E v \in SignedRange : ed = SignedNew(v) /\ op = New(v)
    /\ built = "Ok"

InitUnsigned ==
    /\ kind = "unsigned"
    /\ \E v \in UnsignedRange : ed = UnsignedNew(v) /\ op = New(v)
    /\ built = "Ok"

InitFloat ==
    /\ kind = "float"
    /\ \E v \in FloatSources :
            ed = FloatNew(v).self /\ built = FloatNew(v).result /\ op = New(v)

InitHistory ==
    /\ ret = "Self"
    /\ pre = ed
    /\ start = ed
    /\ n = 0

Init == (InitSigned \/ InitUnsigned \/ InitFloat) /\ InitHistory
InitInt == (InitSigned \/ InitUnsigned) /\ InitHistory
InitFloatOnly == InitFloat /\ InitHistory

SignedSetAct(v) ==
    kind = "signed" /\ Step(Call("set", "", v), SignedSet(ed, v), "()")
SignedAddAct(v) ==
    kind = "signed" /\ Step(Call("add", "", v), SignedAdd(ed, v), "Self")
SignedSubAct(v) ==
    kind = "signed" /\ Step(Call("sub", "", v), SignedSub(ed, v), "Self")
SignedMultiplyAct(v) ==
    kind = "signed" /\ Step(Call("multiply", "", v), SignedMultiply(ed, v), "Self")
SignedInvertAct ==
    kind = "signed" /\ Step(Call("invert", "", 0), SignedInvert(ed), "()")
SignedRemoveDigitAct ==
    kind = "signed" /\ Step(Call("remove_digit", "", 0), SignedRemoveDigit(ed), "()")
SignedAppendDigitAct(c) ==
    kind = "signed" /\ Step(Call("append_digit", c, 0), SignedAppendDigit(ed, c).self,
                            IF SignedAppendDigit(ed, c).result THEN "true" ELSE "false")
SignedHandleEventAct(e) ==
    kind = "signed" /\ Step(Deliver(e), SignedHandleEvent(ed, e).self,
                            SignedHandleEvent(ed, e).response)

UnsignedSetAct(v) ==
    kind = "unsigned" /\ Step(Call("set", "", v), UnsignedSet(ed, v), "()")
UnsignedAddAct(v) ==
    kind = "unsigned" /\ Step(Call("add", "", v), UnsignedAdd(ed, v), "Self")
UnsignedSubAct(v) ==
    kind = "unsigned" /\ Step(Call("sub", "", v), UnsignedSub(ed, v), "Self")
UnsignedMultiplyAct(v) ==
    kind = "unsigned" /\ Step(Call("multiply", "", v), UnsignedMultiply(ed, v), "Self")
UnsignedRemoveDigitAct ==
    kind = "unsigned" /\ Step(Call("remove_digit", "", 0), UnsignedRemoveDigit(ed), "()")
UnsignedAppendDigitAct(c) ==
    kind = "unsigned" /\ Step(Call("append_digit", c, 0), UnsignedAppendDigit(ed, c).self,
                              IF UnsignedAppendDigit(ed, c).result THEN "true" ELSE "false")
UnsignedHandleEventAct(e) ==
    kind = "unsigned" /\ Step(Deliver(e), UnsignedHandleEvent(ed, e).self,
                              UnsignedHandleEvent(ed, e).response)

FloatPushDigitAct(c) ==
    /\ kind = "float" /\ built = "Ok"
    /\ Fits(FloatPushDigit(ed, c))
    /\ Step(Call("push_digit", c, 0), FloatPushDigit(ed, c), "()")
FloatRemoveDigitAct ==
    /\ kind = "float" /\ built = "Ok"
    /\ Step(Call("remove_digit", "", 0), FloatRemoveDigit(ed), "()")
FloatHandleEventAct(e) ==
    /\ kind = "float" /\ built = "Ok"
    /\ Fits(FloatHandleEvent(ed, e).self)
    /\ Step(Deliver(e), FloatHandleEvent(ed, e).self, FloatHandleEvent(ed, e).response)

NextSigned ==
    \/ \E v \in SignedArgs : SignedSetAct(v)
    \/ \E v \in SignedArgs : SignedAddAct(v)
    \/ \E v \in SignedArgs : SignedSubAct(v)
    \/ \E v \in SignedArgs : SignedMultiplyAct(v)
    \/ SignedInvertAct
    \/ SignedRemoveDigitAct
    \/ \E c \in IntChars : SignedAppendDigitAct(c)
    \/ \E e \in IntEvents : SignedHandleEventAct(e)

NextUnsigned ==
    \/ \E v \in UnsignedArgs : UnsignedSetAct(v)
    \/ \E v \in UnsignedArgs : UnsignedAddAct(v)
    \/ \E v \in UnsignedArgs : UnsignedSubAct(v)
    \/ \E v \in UnsignedArgs : UnsignedMultiplyAct(v)
    \/ UnsignedRemoveDigitAct
    \/ \E c \in IntChars : UnsignedAppendDigitAct(c)
    \/ \E e \in IntEvents : UnsignedHandleEventAct(e)

NextFloat ==
    \/ \E c \in FloatChars : FloatPushDigitAct(c)
    \/ FloatRemoveDigitAct
    \/ \E e \in FloatEvents : FloatHandleEventAct(e)

NextInt == NextSigned \/ NextUnsigned
Next == NextSigned \/ NextUnsigned \/ NextFloat

\* Any editor; the integer editors; the float editor.
Spec == Init /\ [][Next]_vars
SpecInt == InitInt /\ [][NextInt]_vars
SpecFloat == InitFloatOnly /\ [][NextFloat]_vars

(***************************************************************************)
(* Properties                                                              *)
(***************************************************************************)
IsInt == kind \in {"signed", "unsigned"}
Lo == IF kind = "signed" THEN TMin ELSE UMin
Hi == IF kind = "signed" THEN TMax ELSE UMax
Abs(v) == IF v < 0 THEN 0 - v ELSE v
Pow10(k) == IF k = 0 THEN 1 ELSE IF k = 1 THEN 10 ELSE IF k = 2 THEN 100
            ELSE IF k = 3 THEN 1000 ELSE 10000
NumDigits(v) == IF Abs(v) < 10 THEN 1 ELSE IF Abs(v) < 100 THEN 2 ELSE 3

\* The last operation was the method `name`, called directly.
Called(name) == op.name = name
\* The last operation was the delivery of the key with this code.
Pressed(code) == op.name = "handle_event" /\ op.code = code
\* The last operation handed the character c to append_digit / push_digit,
\* directly or through a key event.
Typed(method, c) ==
    \/ op.name = method /\ op.ch = c
    \/ Pressed("Char") /\ op.ch = c
TypedDigit(method) == \E c \in AsciiDigits : Typed(method, c)
\* The last operation was remove_digit, directly or through Backspace.
Removed == Called("remove_digit") \/ Pressed("Backspace")

\* C1: in the signed editor, whenever current is not zero the negative flag
\* equals (current < 0); only a zero may carry a flag that differs from its sign.
C1_SignMatchesValue ==
    kind = "signed" => (ed.current # 0 => ed.negative = (ed.current < 0))

C1_Witness ==
    /\ kind = "signed" /\ Called("invert")
    /\ pre.current = TMin /\ pre.negative
    /\ ed.current = TMax /\ ~ed.negative

\* The exact (unbounded) result of the last arithmetic operation.
Exact ==
    CASE Called("add") -> pre.current + op.val
      [] Called("sub") -> pre.current - op.val
      [] Called("multiply") -> pre.current * op.val
      [] Called("invert") -> 0 - pre.current
      [] Pressed("Up") -> pre.current + 1
      [] Pressed("Down") -> pre.current - 1
      [] TypedDigit("append_digit") ->
            IF kind = "signed" /\ pre.negative
            THEN 10 * pre.current - ToDigit(op.ch)
            ELSE 10 * pre.current + ToDigit(op.ch)
      [] Called("set") -> op.val
      [] OTHER -> pre.current

\* The last operation was one of those.
Arithmetic ==
    \/ \E m \in {"add", "sub", "multiply", "invert", "set"} : Called(m)
    \/ Pressed("Up") \/ Pressed("Down") \/ TypedDigit("append_digit")

\* C2: in both integer editors the stored value always lies in [T::min, T::max],
\* and after set, add, sub, multiply, invert, the arrow keys and every digit
\* append it is the exact result clamped to that range, while remove_digit never
\* grows the magnitude: nothing wraps around.
C2_ValueInRange ==
    IsInt =>
        /\ ed.current \in Lo..Hi
        /\ Arithmetic => ed.current = Clamp(Exact, Lo, Hi)
        /\ Removed => Abs(ed.current) <= Abs(pre.current)

C2_Witness ==
    /\ kind = "signed" /\ Called("append_digit") /\ op.ch = "9"
    /\ pre.current = TMin /\ ed.current = TMin

\* C3 as claimed: two consecutive invert() calls restore the value and the flag
\* of every reachable state.
C3_InvertTwiceRestores ==
    (kind = "signed" /\ Called("invert") /\ n = 2) => ed = start

\* C3 amended: two consecutive invert() calls restore the value and the flag
\* of every reachable state whose value is not T::min.
C3_InvertTwiceRestoresExceptMin ==
    (kind = "signed" /\ Called("invert") /\ n = 2 /\ start.current # TMin) => ed = start

C3_Witness ==
    /\ kind = "signed" /\ Called("invert") /\ n = 2
    /\ start.current = TMax /\ pre.current = 0 - TMax /\ ed = start

\* C4: set(0) stores 0 and leaves the negative flag as it was; set(v) with
\* v # 0 stores v and makes the flag (v < 0), whatever it was before.
C4_SetSign ==
    (kind = "signed" /\ Called("set")) =>
        /\ ed.current = op.val
        /\ op.val = 0 => ed.negative = pre.negative
        /\ op.val # 0 => ed.negative = (op.val < 0)

C4_Witness ==
    /\ kind = "signed" /\ Called("set") /\ op.val = 0
    /\ pre.current < 0 /\ pre.negative
    /\ ed.current = 0 /\ ed.negative

\* q is v with its last k decimal digits removed (v / 10^k toward zero).
IsTruncatedBy(q, v, k) ==
    /\ Abs(v) - Abs(q) * Pow10(k) \in 0..(Pow10(k) - 1)
    /\ q # 0 => (q < 0) = (v < 0)

\* C5: n consecutive remove_digit() calls on a value v of at least n decimal
\* digits leave v / 10^n truncated toward zero, also for negative v; appending
\* '1', '2', '3' to an editor at 0 and removing twice leaves 1.
C5_RemoveDigits ==
    /\ (IsInt /\ Called("remove_digit") /\ NumDigits(start.current) >= n) =>
            IsTruncatedBy(ed.current, start.current, n)
    /\ LET typed == SignedAppendDigit(SignedAppendDigit(
                        SignedAppendDigit(SignedNew(0), "1").self, "2").self, "3").self
       IN  typed.current = 123 /\ SignedRemoveDigit(SignedRemoveDigit(typed)).current = 1
    /\ LET typed == UnsignedAppendDigit(UnsignedAppendDigit(
                        UnsignedAppendDigit(UnsignedNew(0), "1").self, "2").self, "3").self
       IN  typed.current = 123 /\ UnsignedRemoveDigit(UnsignedRemoveDigit(typed)).current = 1

C5_Witness ==
    /\ kind = "signed" /\ Called("remove_digit") /\ n = 2
    /\ start.current = -123 /\ pre.current = -12 /\ ed.current = -1

\* C6: by key events, '-' at a positive zero sets the flag and keeps the value 0;
\* a digit d delivered at a negative zero gives -d ('-' then '5' gives -5); and
\* every digit delivered to a negative number extends it as a negative number.
C6_MinusThenDigits ==
    /\ (kind = "signed" /\ Pressed("Char") /\ op.ch = "-"
            /\ pre = [current |-> 0, negative |-> FALSE]) =>
            ed = [current |-> 0, negative |-> TRUE]
    /\ (kind = "signed" /\ Pressed("Char") /\ IsAsciiDigit(op.ch)
            /\ pre = [current |-> 0, negative |-> TRUE]) =>
            ed = [current |-> 0 - ToDigit(op.ch), negative |-> TRUE]
    /\ (kind = "signed" /\ Pressed("Char") /\ IsAsciiDigit(op.ch)
            /\ pre.negative /\ pre.current < 0) =>
            /\ ed.negative
            /\ ed.current = (IF 10 * pre.current - ToDigit(op.ch) < TMin THEN TMin
                             ELSE 10 * pre.current - ToDigit(op.ch))
    /\ LET minus == SignedHandleEvent(SignedNew(0), KeyChar("-")).self
       IN  /\ minus = [current |-> 0, negative |-> TRUE]
           /\ SignedHandleEvent(minus, KeyChar("5")).self
                = [current |-> -5, negative |-> TRUE]

C6_Witness ==
    /\ kind = "signed" /\ Pressed("Char") /\ op.ch = "5"
    /\ pre = [current |-> 0, negative |-> TRUE]
    /\ ed = [current |-> -5, negative |-> TRUE]

HasSpan(spans, text) == \E i \in 1..Len(spans) : spans[i].text = text

\* C7: in the unsigned editor a digit append whose exact result 10*current + d
\* exceeds T::max leaves exactly T::max, and at T::max every digit append leaves
\* T::max; at 250, each of three appends of '9' leaves 255, rendered with
\* " (max value)".
C7_UnsignedSaturates ==
    /\ (kind = "unsigned" /\ TypedDigit("append_digit")
            /\ 10 * pre.current + ToDigit(op.ch) > UMax) => ed.current = UMax
    /\ (kind = "unsigned" /\ TypedDigit("append_digit") /\ pre.current = UMax) =>
            ed.current = UMax
    /\ (kind = "unsigned" /\ Called("append_digit") /\ op.ch = "9"
            /\ start.current = 250 /\ n \in 1..3) =>
            /\ ed.current = 255
            /\ HasSpan(UnsignedGetSpans(ed), " (max value)")

C7_Witness ==
    /\ kind = "unsigned" /\ Called("append_digit") /\ op.ch = "9"
    /\ start.current = 250 /\ n = 3 /\ pre.current = 255 /\ ed.current = 255
    /\ UnsignedGetSpans(ed)[3].text = " (max value)"

\* t is s without its leading '0' characters.
IsWithoutLeadingZeros(t, s) ==
    \E k \in 0..Len(s) :
        /\ \A i \in 1..k : s[i] = "0"
        /\ t = SubSeq(s, k + 1, Len(s))
        /\ t # <<>> => t[1] # "0"

\* C8: in the Number state a pushed digit goes to the fractional string when a
\* decimal point has been typed and to the whole part otherwise; '.' sets the
\* fractional string to the empty string only when there is none yet and is
\* otherwise ignored; from 0.0 the inputs '1', '2', '.', '5' display "12.5" with
\* whole "12" and fraction "5".
C8_PushDigit ==
    /\ (kind = "float" /\ TypedDigit("push_digit") /\ pre.value.tag = "Number") =>
            IF IsSome(pre.value.integral)
            THEN ed.value = [pre.value EXCEPT
                                !.integral = Some(Append(Unwrap(pre.value.integral), op.ch))]
            ELSE /\ ed.value.tag = "Number"
                 /\ ed.value.integral = None
                 /\ ed.value.negative = pre.value.negative
                 /\ IsWithoutLeadingZeros(ed.value.whole, Append(pre.value.whole, op.ch))
    /\ (kind = "float" /\ Typed("push_digit", ".") /\ pre.value.tag = "Number") =>
            IF IsSome(pre.value.integral)
            THEN ed = pre
            ELSE ed.value = [pre.value EXCEPT !.integral = Some(<<>>)]
    /\ LET zero == FloatNew(Finite(<<"0">>)).self
           typed == FloatPushDigit(FloatPushDigit(FloatPushDigit(
                        FloatPushDigit(zero, "1"), "2"), "."), "5")
       IN  /\ typed.value = Number(<<"1", "2">>, Some(<<"5">>), FALSE)
           /\ FloatGetSpans(typed)[2].text = "12.5"

C8_Witness ==
    /\ kind = "float" /\ Typed("push_digit", "5")
    /\ pre.value = Number(<<"1", "2">>, Some(<<>>), FALSE)
    /\ ed.value = Number(<<"1", "2">>, Some(<<"5">>), FALSE)
    /\ FloatGetSpans(ed)[2].text = "12.5"

\* C9: in the Number state remove_digit pops the last fractional digit of a
\* non-empty fractional string; removes the decimal point, leaving the whole
\* part alone, when the fractional string is empty; and without a fractional
\* string pops the last whole-part digit (nothing on an empty whole part).
\* "3." goes to "3" and then to the empty whole part, whose value is 0.
C9_RemoveDigit ==
    /\ (kind = "float" /\ Removed /\ pre.value.tag = "Number") =>
            LET whole == pre.value.whole
                integral == pre.value.integral
            IN  IF IsSome(integral) /\ Unwrap(integral) # <<>>
                THEN ed.value = [pre.value EXCEPT !.integral =
                        Some(SubSeq(Unwrap(integral), 1, Len(Unwrap(integral)) - 1))]
                ELSE IF IsSome(integral)
                THEN ed.value = [pre.value EXCEPT !.integral = None]
                ELSE IF whole # <<>>
                THEN ed.value = [pre.value EXCEPT !.whole = SubSeq(whole, 1, Len(whole) - 1)]
                ELSE ed = pre
    /\ (kind = "float" /\ Called("remove_digit") /\ n = 2
            /\ start.value = Number(<<"3">>, Some(<<>>), FALSE)) =>
            /\ pre.value = Number(<<"3">>, None, FALSE)
            /\ ed.value = Number(<<>>, None, FALSE)
            /\ FloatValueOf(ed) =
                 [class |-> "Finite", negative |-> FALSE, mantissa |-> 0, scale |-> 0]

C9_Witness ==
    /\ kind = "float" /\ Called("remove_digit") /\ n = 2
    /\ start.value = Number(<<"3">>, Some(<<>>), FALSE)
    /\ ed.value = Number(<<>>, None, FALSE)
    /\ FloatValueOf(ed).mantissa = 0

FiniteZero == Number(<<>>, None, FALSE)

\* C10: Tab moves Number to Infinity, Infinity to NaN and NaN to Number whatever
\* the contents; the Number entered from NaN is the finite zero (empty whole
\* part, no decimal point, positive) and the Infinity entered from Number is
\* positive; three Tabs from a Number state end in the finite zero, not in the
\* number that was entered.
C10_TabCycles ==
    /\ (kind = "float" /\ Pressed("Tab")) =>
            CASE pre.value.tag = "Number" -> ed.value = Infinity(FALSE)
              [] pre.value.tag = "Infinity" -> ed.value = Nan
              [] pre.value.tag = "Nan" -> ed.value = FiniteZero
    /\ (kind = "float" /\ Pressed("Tab") /\ n = 3 /\ start.value.tag = "Number") =>
            /\ ed.value = FiniteZero
            /\ FloatValueOf(ed) =
                 [class |-> "Finite", negative |-> FALSE, mantissa |-> 0, scale |-> 0]
            /\ start.value # FiniteZero => ed # start

C10_Witness ==
    /\ kind = "float" /\ Pressed("Tab") /\ n = 3
    /\ start.value = Number(<<"1", "2">>, Some(<<"5">>), TRUE)
    /\ pre.value = Nan
    /\ ed.value = FiniteZero

\* The value handed to the constructor reports itself as neither infinite,
\* NaN nor finite.
Unclassified(v) == ~v.is_infinite /\ ~v.is_nan /\ ~v.is_finite

\* C11: FloatInput::new on a source value that is neither infinite, NaN nor
\* finite fails with NewFloatError::InvalidState, the kind distinct from the
\* ParseError returned for an empty or non-digit textual decomposition.
C11_UnclassifiedIsInvalidState ==
    (kind = "float" /\ Called("new")) =>
        /\ Unclassified(op.source) => built = "InvalidState"
        /\ built = "ParseError" => ~Unclassified(op.source)

\* The key codes and characters each editor's handle_event acts on.
MappedKeys ==
    IF kind = "float" THEN {"Char", "Backspace", "Tab", "Enter", "Esc"}
    ELSE {"Char", "Backspace", "Up", "Down", "Enter", "Esc"}
MappedChars ==
    CASE kind = "signed" -> AsciiDigits \cup {"-"}
      [] kind = "unsigned" -> AsciiDigits
      [] kind = "float" -> AsciiDigits \cup {".", "-"}

\* C12: in all three editors handle_event returns Submit for Enter and Cancel
\* for Escape, leaving the editor unchanged; every other event returns None; and
\* mouse events, keys outside the mapping and characters the editor does not
\* handle leave the editor unchanged.
C12_Responses ==
    Called("handle_event") =>
        /\ ret = (IF op.code = "Enter" THEN "Submit"
                  ELSE IF op.code = "Esc" THEN "Cancel" ELSE "None")
        /\ op.code \in {"Enter", "Esc", "Mouse"} => ed = pre
        /\ op.code \notin MappedKeys => ed = pre
        /\ (op.code = "Char" /\ op.ch \notin MappedChars) => ed = pre

C12_Witness ==
    /\ kind = "unsigned" /\ Pressed("Esc") /\ ret = "Cancel"
    /\ pre.current = 250 /\ ed = pre

\* The decimal numeral of a magnitude below 1000, digit by digit.
Decimal(m) ==
    IF m >= 100
    THEN DigitChars[(m \div 100) + 1] \o DigitChars[((m \div 10) % 10) + 1]
            \o DigitChars[(m % 10) + 1]
    ELSE IF m >= 10
    THEN DigitChars[(m \div 10) + 1] \o DigitChars[(m % 10) + 1]
    ELSE DigitChars[m + 1]

Rendered == IF kind = "signed" THEN SignedGetSpans(ed) ELSE UnsignedGetSpans(ed)

\* C13: the integer editors render, in order, a sign indicator ("- " exactly
\* when the signed flag is set, "+ " otherwise, "> " for unsigned), the decimal
\* magnitude without a sign character, then " (max value)" exactly when the
\* value is T::max, " (min value)" exactly when it is T::min, and nothing else.
C13_Rendering ==
    IsInt =>
        /\ Rendered[1].text = (IF kind = "unsigned" THEN "> "
                               ELSE IF ed.negative THEN "- " ELSE "+ ")
        /\ Rendered[2].text = Decimal(Abs(ed.current))
        /\ Len(Rendered) = (IF ed.current \in {Lo, Hi} THEN 3 ELSE 2)
        /\ ed.current = Hi => Rendered[3].text = " (max value)"
        /\ ed.current = Lo => Rendered[3].text = " (min value)"

C13_Witness ==
    /\ kind = "signed" /\ Pressed("Down") /\ pre.current = TMin + 1 /\ ed.current = TMin
    /\ Rendered = <<Span("- ", "Green"), Span("128", "Raw"), Span(" (min value)", "Gray")>>

\* C14: append_digit(c) with an ASCII digit of value d returns true and sets the
\* value to 10*current + d (unsigned, or signed with the flag clear) or to
\* 10*current - d (signed with the flag set), clamped onto [T::min, T::max];
\* with any other character it returns false and changes neither value nor flag.
C14_AppendDigit ==
    (IsInt /\ Called("append_digit")) =>
        IF IsAsciiDigit(op.ch)
        THEN /\ ret = "true"
             /\ ed.current =
                    Clamp(IF kind = "signed" /\ pre.negative
                          THEN 10 * pre.current - ToDigit(op.ch)
                          ELSE 10 * pre.current + ToDigit(op.ch), Lo, Hi)
        ELSE ret = "false" /\ ed = pre

C14_Witness ==
    /\ kind = "signed" /\ Called("append_digit") /\ op.ch = "9" /\ ret = "true"
    /\ pre = [current |-> -12, negative |-> TRUE]
    /\ ed = [current |-> TMin, negative |-> TRUE]

\* C15: invert() at zero flips only the negative flag; at a nonzero value it
\* stores the saturating 0 - current (T::min becomes T::max, any other v
\* becomes -v) and makes the flag the sign of the new value.
C15_Invert ==
    (kind = "signed" /\ Called("invert")) =>
        IF pre.current = 0
        THEN ed = [current |-> 0, negative |-> ~pre.negative]
        ELSE /\ ed.current = (IF pre.current = TMin THEN TMax ELSE 0 - pre.current)
             /\ ed.negative = (ed.current < 0)

C15_Witness ==
    /\ kind = "signed" /\ Called("invert")
    /\ pre = [current |-> TMin, negative |-> TRUE]
    /\ ed = [current |-> TMax, negative |-> FALSE]
    /\ n = 1

\* C16: when remove_digit (or Backspace) takes a negative value down to 0 the
\* negative flag stays set, so the next appended digit d gives -d; a positive
\* value taken down to 0 keeps the flag clear and the next digit gives +d.
C16_SignSurvivesZero ==
    /\ (kind = "signed" /\ Removed /\ start.current # 0 /\ ed.current = 0) =>
            /\ ed.negative = (start.current < 0)
            /\ \A c \in AsciiDigits :
                  SignedAppendDigit(ed, c).self.current =
                      (IF start.current < 0 THEN 0 - ToDigit(c) ELSE ToDigit(c))
    /\ (kind = "signed" /\ TypedDigit("append_digit") /\ pre.current = 0) =>
            ed.current = (IF pre.negative THEN 0 - ToDigit(op.ch) ELSE ToDigit(op.ch))

C16_Witness ==
    /\ kind = "signed" /\ Pressed("Backspace") /\ n = 3
    /\ start = [current |-> -123, negative |-> TRUE]
    /\ pre = [current |-> -1, negative |-> TRUE]
    /\ ed = [current |-> 0, negative |-> TRUE]
    /\ SignedHandleEvent(ed, KeyChar("5")).self = [current |-> -5, negative |-> TRUE]

\* C17: Up stores min(current + 1, T::max) and Down max(current - 1, T::min), so
\* Up at T::max and Down at T::min change nothing; in the signed editor Up from
\* a zero with the flag set gives +1 with the flag clear and Down from a zero
\* with the flag clear gives -1 with the flag set.
C17_UpDown ==
    /\ (IsInt /\ Pressed("Up")) =>
            /\ ed.current = (IF pre.current + 1 > Hi THEN Hi ELSE pre.current + 1)
            /\ pre.current = Hi => ed = pre
    /\ (IsInt /\ Pressed("Down")) =>
            /\ ed.current = (IF pre.current - 1 < Lo THEN Lo ELSE pre.current - 1)
            /\ pre.current = Lo => ed = pre
    /\ (kind = "signed" /\ Pressed("Up") /\ pre = [current |-> 0, negative |-> TRUE]) =>
            ed = [current |-> 1, negative |-> FALSE]
    /\ (kind = "signed" /\ Pressed("Down") /\ pre = [current |-> 0, negative |-> FALSE]) =>
            ed = [current |-> -1, negative |-> TRUE]

C17_Witness ==
    /\ kind = "signed" /\ Pressed("Up")
    /\ pre = [current |-> 0, negative |-> TRUE]
    /\ ed = [current |-> 1, negative |-> FALSE]

AllZeros(s) == \A i \in 1..Len(s) : s[i] = "0"

\* C18: in the Number state, after a digit push in whole-part mode the whole
\* part has no leading '0' (a '0' pushed onto an empty or all-zero whole part
\* leaves it empty; "0" followed by '1' becomes "1"); a digit push in fractional
\* mode leaves the whole part alone and the fractional digits are kept as typed,
\* leading and trailing zeros included.
C18_LeadingZeros ==
    (kind = "float" /\ TypedDigit("push_digit") /\ pre.value.tag = "Number") =>
        IF pre.value.integral = None
        THEN /\ ed.value.whole # <<>> => ed.value.whole[1] # "0"
             /\ (op.ch = "0" /\ AllZeros(pre.value.whole)) => ed.value.whole = <<>>
             /\ (op.ch = "1" /\ pre.value.whole = <<"0">>) => ed.value.whole = <<"1">>
        ELSE /\ ed.value.whole = pre.value.whole
             /\ Unwrap(ed.value.integral) = Unwrap(pre.value.integral) \o <<op.ch>>

C18_Witness ==
    /\ kind = "float" /\ Typed("push_digit", "1")
    /\ pre.value = Number(<<"0">>, None, FALSE)
    /\ ed.value = Number(<<"1">>, None, FALSE)

\* C19: in the Infinity state digits, '.' and Backspace change nothing and '-'
\* flips only the sign flag; in the NaN state every character and Backspace
\* change nothing, so only the cycle key leaves NaN.
C19_InfinityAndNan ==
    /\ (kind = "float" /\ built = "Ok" /\ pre.value.tag = "Infinity") =>
            /\ (\E c \in AsciiDigits \cup {"."} : Typed("push_digit", c)) => ed = pre
            /\ Removed => ed = pre
            /\ (Pressed("Char") /\ op.ch = "-") =>
                    ed.value = Infinity(~pre.value.negative)
    /\ (kind = "float" /\ built = "Ok" /\ pre.value.tag = "Nan") =>
            /\ (Pressed("Char") \/ Called("push_digit") \/ Removed) => ed = pre
            /\ ed.value.tag # "Nan" => Pressed("Tab")

C19_Witness ==
    /\ kind = "float" /\ Pressed("Char") /\ op.ch = "-"
    /\ pre.value = Infinity(FALSE) /\ ed.value = Infinity(TRUE)

\* C20: in the Number state a '-' key flips the sign flag whatever the digit
\* strings are and leaves whole and fractional strings unchanged; two '-' keys
\* in a row restore the exact prior state.
C20_MinusFlipsNumber ==
    /\ (kind = "float" /\ Pressed("Char") /\ op.ch = "-" /\ pre.value.tag = "Number") =>
            ed.value = Number(pre.value.whole, pre.value.integral, ~pre.value.negative)
    /\ (kind = "float" /\ Pressed("Char") /\ op.ch = "-" /\ n = 2
            /\ start.value.tag = "Number") => ed = start

C20_Witness ==
    /\ kind = "float" /\ Pressed("Char") /\ op.ch = "-" /\ n = 2
    /\ start.value = Number(<<>>, Some(<<>>), FALSE)
    /\ pre.value = Number(<<>>, Some(<<>>), TRUE)
    /\ ed = start

OnlyDigits(s) == \A i \in 1..Len(s) : \E k \in 1..10 : s[i] = DigitChars[k]

\* C21: in every state of a successfully constructed float editor, whatever key
\* events, push_digit and remove_digit calls led to it, the whole-part string
\* and the fractional string (when present) hold only the characters '0'..'9'.
C21_OnlyDigits ==
    (kind = "float" /\ built = "Ok" /\ ed.value.tag = "Number") =>
        /\ OnlyDigits(ed.value.whole)
        /\ ed.value.integral # None => OnlyDigits(ed.value.integral[1])

C21_Witness ==
    /\ kind = "float" /\ built = "Ok" /\ Called("push_digit") /\ op.ch = "x"
    /\ ed.value = Number(<<"1", "2">>, Some(<<"5">>), TRUE)
    /\ ed = pre

\* text is one or more digits, optionally followed by '.' and any digits.
IsDecimalShape(text) ==
    \E k \in 1..Len(text) :
        /\ \A i \in 1..k : text[i] \in AsciiDigits
        /\ k < Len(text) =>
              /\ text[k + 1] = "."
              /\ \A i \in (k + 2)..Len(text) : text[i] \in AsciiDigits

\* C22: in every reachable Number state the text value() parses is the text
\* that is rendered: the whole part ("0" when it is empty) followed by '.' and
\* the fractional string exactly when a fractional string is present; it is
\* never empty, never starts with '.', and is digit+ ('.' digit*)?, so value()
\* is defined everywhere; Infinity gives the infinity of the flag's sign and
\* NaN gives NaN.
C22_ValueText ==
    (kind = "float" /\ built = "Ok") =>
        CASE ed.value.tag = "Number" ->
                LET text == Entire(ed.value)
                    whole == IF ed.value.whole = <<>> THEN <<"0">> ELSE ed.value.whole
                IN  /\ Join(text) = FloatGetSpans(ed)[2].text
                    /\ text = (IF ed.value.integral = None THEN whole
                               ELSE whole \o <<".">> \o ed.value.integral[1])
                    /\ text # <<>> /\ text[1] # "."
                    /\ IsDecimalShape(text)
                    /\ FloatValueOf(ed).class = "Finite"
          [] ed.value.tag = "Infinity" ->
                FloatValueOf(ed) = [class |-> "Infinite", negative |-> ed.value.negative]
          [] ed.value.tag = "Nan" -> FloatValueOf(ed) = [class |-> "NaN"]

C22_Witness ==
    /\ kind = "float" /\ built = "Ok" /\ Typed("push_digit", ".")
    /\ pre.value = Number(<<>>, None, FALSE)
    /\ ed.value = Number(<<>>, Some(<<>>), FALSE)
    /\ Entire(ed.value) = <<"0", ".">>
    /\ FloatGetSpans(ed)[2].text = "0."
    /\ FloatValueOf(ed).class = "Finite"

\* remove_digit() of the editor in use.
RemoveDigit(self) ==
    IF kind = "signed" THEN SignedRemoveDigit(self) ELSE UnsignedRemoveDigit(self)

\* The exact value of appending the digit c to self: 10 * current + d, or
\* 10 * current - d when the signed negative flag is set.
Appended(self, c) ==
    IF kind = "signed" /\ self.negative
    THEN 10 * self.current - ToDigit(c)
    ELSE 10 * self.current + ToDigit(c)

\* C23: in the integer editors, whenever a digit d is appended and
\* 10 * current + d (10 * current - d under the signed negative flag) lies in
\* [T::min, T::max], a following remove_digit() restores the previous value
\* and, in the signed editor, the previous negative flag.
C23_AppendRemove ==
    (IsInt /\ TypedDigit("append_digit") /\ Appended(pre, op.ch) \in Lo..Hi) =>
        /\ ed.current = Appended(pre, op.ch)
        /\ RemoveDigit(ed) = pre

C23_Witness ==
    /\ kind = "signed" /\ Called("append_digit") /\ op.ch = "3"
    /\ pre = [current |-> -12, negative |-> TRUE]
    /\ ed = [current |-> -123, negative |-> TRUE]
    /\ SignedRemoveDigit(ed) = pre

\* C24: in every Number state, push_digit(d) of a digit followed by
\* remove_digit() leaves the rendered text, the sign flag and the presence of
\* the decimal point as they were; the stored whole part is the same or went
\* from "0" to the empty string, which render and evaluate identically.
C24_PushRemove ==
    (kind = "float" /\ built = "Ok" /\ TypedDigit("push_digit")
        /\ pre.value.tag = "Number") =>
        LET back == FloatRemoveDigit(ed)
        IN  /\ back.value.tag = "Number"
            /\ FloatGetSpans(back) = FloatGetSpans(pre)
            /\ back.value.negative = pre.value.negative
            /\ IsSome(back.value.integral) = IsSome(pre.value.integral)
            /\ back.value.integral = pre.value.integral
            /\ \/ back.value.whole = pre.value.whole
               \/ pre.value.whole = <<"0">> /\ back.value.whole = <<>>
            /\ FloatValueOf(back) = FloatValueOf(pre)
            /\ FloatGetSpans([value |-> Number(<<"0">>, None, FALSE)])
                  = FloatGetSpans([value |-> Number(<<>>, None, FALSE)])
            /\ FloatValueOf([value |-> Number(<<"0">>, None, FALSE)])
                  = FloatValueOf([value |-> Number(<<>>, None, FALSE)])

C24_Witness ==
    /\ kind = "float" /\ built = "Ok" /\ Called("push_digit") /\ op.ch = "5"
    /\ pre.value = Number(<<"0">>, None, TRUE)
    /\ ed.value = Number(<<"5">>, None, TRUE)
    /\ FloatRemoveDigit(ed).value = Number(<<>>, None, TRUE)
    /\ FloatGetSpans(FloatRemoveDigit(ed)) = FloatGetSpans(pre)

====
